---- MODULE Spec2Model ----
(***************************************************************************)
(* Concierge: a Server that keeps one LanguageEngine/Orchestrator per      *)
(* session, all of them driving the one Workflow object the Server was     *)
(* constructed with (stages, cursor, per-stage local_state).               *)
(***************************************************************************)
EXTENDS Integers, Sequences, FiniteSets, TLC

VARIABLES
    workflow,            \* the Workflow definition held by the Server
    cursor,              \* Workflow.cursor (name of the stage), "None" before initialize()
    local_state,         \* Stage.local_state of every stage of the Workflow
    sessions,            \* Server.sessions: the keys, in insertion order
    state,               \* Orchestrator.state (global State) of every session
    history,             \* Orchestrator.history of every session
    pending_transition,  \* Orchestrator.pending_transition of every session
    response,            \* what the call just served returned
    serving,             \* the requests the HTTP handler has begun to serve
    store                \* the tables of the state manager and its calls in flight

vars == <<workflow, cursor, local_state, sessions, state, history,
          pending_transition, response, serving, store>>

----------------------------------------------------------------------------
(* Bounds *)

\* most history entries the one session of EngineSpec builds, and the
\* sessions of TransportSpec together
MaxHistory == 3
\* most history entries the sessions of Spec hold together
MaxSharedHistory == 1
\* most edges of a stage graph built under BuildSpec
MaxEdges == 2
\* most updates the row of the session gets under StoreCallsSpec
MaxUpdates == 2

SessionIds == {"alice", "bob"}
Fields == {"symbol", "quantity"}
\* the values a caller supplies for a field
Values(field) == IF field = "symbol" THEN {"AAPL", "GOOGL"} ELSE {"10"}
None == "None"

----------------------------------------------------------------------------
(* State: the flat key/value container *)

EmptyState == [k \in {} |-> None]

Has(st, key) == key \in DOMAIN st

Get(st, key) == IF key \in DOMAIN st THEN st[key] ELSE None

Set(st, key, value) ==
    [k \in (DOMAIN st) \cup {key} |-> IF k = key THEN value ELSE st[k]]

States ==
    UNION {{st \in [D -> UNION {Values(f) : f \in Fields}] :
                \A k \in D : st[k] \in Values(k)} : D \in SUBSET Fields}

Range(seq) == {seq[i] : i \in DOMAIN seq}

----------------------------------------------------------------------------
(* Propagation configs: "all", "none" or a list of field names *)

ConfigAll == [kind |-> "all", fields |-> <<>>]
ConfigNone == [kind |-> "none", fields |-> <<>>]
ConfigList(fs) == [kind |-> "list", fields |-> fs]
\* a StateTransfer member stored without its .value: it equals neither
\* "all" nor "none" and is no list
ConfigStateTransferAll == [kind |-> "StateTransfer.ALL", fields |-> <<>>]

----------------------------------------------------------------------------------------------------------------------------------------------------
(* The workflow definition the Server is constructed with: the stock       *)
(* exchange example, with one edge of every kind of state_management entry *)

StockStages == <<"browse", "transact", "portfolio">>

StockTransitions ==
    [s \in Range(StockStages) |->
        CASE s = "browse" -> <<"transact", "portfolio">>
          [] s = "transact" -> <<"portfolio", "browse">>
          [] s = "portfolio" -> <<"browse", "transact">>]

\* transact requires the fields of the Stock construct
StockPrerequisites ==
    [s \in Range(StockStages) |->
        IF s = "transact" THEN <<"symbol", "quantity">> ELSE <<>>]

\* tools registered in every stage, in registration order
StockTools ==
    [s \in Range(StockStages) |->
        CASE s = "browse" -> <<"search", "add_to_cart">>
          [] s = "transact" -> <<"buy">>
          [] s = "portfolio" -> <<"view_holdings">>]

\* state_management: (browse, transact) and (browse, portfolio) as in the
\* workflow decorator's docstring; (portfolio, browse) has no entry
StockPropagation ==
    (<<"browse", "transact">> :> ConfigList(<<"symbol", "quantity">>))
    @@ (<<"browse", "portfolio">> :> ConfigAll)
    @@ (<<"transact", "portfolio">> :> ConfigList(<<"quantity">>))
    @@ (<<"transact", "browse">> :> ConfigNone)
    @@ (<<"portfolio", "transact">> :> ConfigList(<<"symbol">>))

StockWorkflow ==
    [name |-> "stock_exchange",
     stages |-> StockStages,
     transitions |-> StockTransitions,
     prerequisites |-> StockPrerequisites,
     tools |-> StockTools,
     state_propagation |-> StockPropagation]

Workflows == {StockWorkflow}

StageNames == Range(StockStages)
ToolNames == UNION {Range(StockTools[s]) : s \in StageNames}

----------------------------------------------------------------------------
(* Stage *)

can_transition_to(w, stage, target_stage) ==
    target_stage \in Range(w.transitions[stage])

\* propagated_fields without the check that the source holds the field
propagated_fields_unchecked(source_state, propagation_config) ==
    CASE propagation_config.kind = "all" -> DOMAIN source_state
      [] propagation_config.kind = "list" -> Range(propagation_config.fields)
      [] OTHER -> {}

\* propagated_fields carrying nothing over for a list of field names
propagated_fields_ignores_lists(source_state, propagation_config) ==
    CASE propagation_config.kind = "all" -> DOMAIN source_state
      [] OTHER -> {}

\* the fields the propagation config carries over from source_state
propagated_fields(source_state, propagation_config) ==
    CASE propagation_config.kind = "all" -> DOMAIN source_state
      [] propagation_config.kind = "none" -> {}
      [] propagation_config.kind = "list" ->
            {f \in Range(propagation_config.fields) : Has(source_state, f)}
      [] OTHER -> {}

\* get_missing_prerequisites looking at the global state only
get_missing_prerequisites_global_only(w, stage, global_state, source_state, propagation_config) ==
    SelectSeq(w.prerequisites[stage],
              LAMBDA field_name : ~Has(global_state, field_name))

get_missing_prerequisites(w, stage, global_state, source_state, propagation_config) ==
    SelectSeq(w.prerequisites[stage],
              LAMBDA field_name :
                  /\ ~Has(global_state, field_name)
                  /\ field_name \notin propagated_fields(source_state, propagation_config))

----------------------------------------------------------------------------
(* Workflow *)

\* _incoming_edges[target]: the stages that list target, in registration order
incoming_edges(w, target) ==
    SelectSeq(w.stages, LAMBDA s : target \in Range(w.transitions[s]))

\* the stage initialize() puts the cursor on
initial_cursor(w) ==
    LET roots == SelectSeq(w.stages, LAMBDA s : incoming_edges(w, s) = <<>>)
    IN IF roots # <<>> THEN roots[1] ELSE w.stages[1]

get_propagation_config(w, from_stage, to_stage) ==
    IF <<from_stage, to_stage>> \in DOMAIN w.state_propagation
    THEN w.state_propagation[<<from_stage, to_stage>>]
    ELSE ConfigAll

\* validate_transition without the prerequisite check
validate_transition_skips_prerequisites(w, from_stage, to_stage, global_state, locals) ==
    IF ~can_transition_to(w, from_stage, to_stage)
    THEN [valid |-> FALSE, reason |-> None,
          allowed |-> w.transitions[from_stage], missing |-> <<>>]
    ELSE [valid |-> TRUE, reason |-> None, allowed |-> <<>>, missing |-> <<>>]

\* validate_transition reporting every stage of the workflow as allowed
validate_transition_allows_all_stages(w, from_stage, to_stage, global_state, locals) ==
    IF ~can_transition_to(w, from_stage, to_stage)
    THEN [valid |-> FALSE, reason |-> None,
          allowed |-> w.stages, missing |-> <<>>]
    ELSE LET missing == get_missing_prerequisites(
                            w, to_stage, global_state, locals[from_stage],
                            get_propagation_config(w, from_stage, to_stage))
         IN IF missing # <<>>
            THEN [valid |-> FALSE, reason |-> "missing_state",
                  allowed |-> <<>>, missing |-> missing]
            ELSE [valid |-> TRUE, reason |-> None,
                  allowed |-> <<>>, missing |-> <<>>]

\* the dict validate_transition returns
validate_transition(w, from_stage, to_stage, global_state, locals) ==
    IF ~can_transition_to(w, from_stage, to_stage)
    THEN [valid |-> FALSE, reason |-> None,
          allowed |-> w.transitions[from_stage], missing |-> <<>>]
    ELSE LET missing == get_missing_prerequisites(
                            w, to_stage, global_state, locals[from_stage],
                            get_propagation_config(w, from_stage, to_stage))
         IN IF missing # <<>>
            THEN [valid |-> FALSE, reason |-> "missing_state",
                  allowed |-> <<>>, missing |-> missing]
            ELSE [valid |-> TRUE, reason |-> None,
                  allowed |-> <<>>, missing |-> <<>>]

\* the State of a transition_to that copies nothing for a list of field names
propagated_state_all_only(source_state, config) ==
    CASE config.kind = "all" -> source_state
      [] OTHER -> EmptyState

\* the State of a transition_to that takes a StateTransfer.ALL member for "all"
propagated_state_accepts_enum(source_state, config) ==
    CASE config.kind \in {"all", "StateTransfer.ALL"} -> source_state
      [] config.kind = "list" ->
            [k \in {f \in Range(config.fields) : Has(source_state, f)} |->
                source_state[k]]
      [] OTHER -> EmptyState

\* the State transition_to installs in the target stage
propagated_state(source_state, config) ==
    CASE config.kind = "all" -> source_state
      [] config.kind = "list" ->
            [k \in {f \in Range(config.fields) : Has(source_state, f)} |->
                source_state[k]]
      [] OTHER -> EmptyState

\* transition_to writing the propagated fields over the target's old data
transition_to_merges(w, cur, to_stage, locals) ==
    LET new_state == propagated_state(locals[cur],
                                      get_propagation_config(w, cur, to_stage))
    IN [locals EXCEPT ![to_stage] =
            [k \in (DOMAIN @) \cup (DOMAIN new_state) |->
                IF k \in DOMAIN new_state THEN new_state[k] ELSE @[k]]]

\* transition_to taking the propagated fields out of the source stage
transition_to_moves(w, cur, to_stage, locals) ==
    LET config == get_propagation_config(w, cur, to_stage)
        new_state == propagated_state(locals[cur], config)
    IN [st \in DOMAIN locals |->
            IF st = to_stage THEN new_state
            ELSE IF st = cur
            THEN [k \in (DOMAIN locals[cur]) \ (DOMAIN new_state) |->
                      locals[cur][k]]
            ELSE locals[st]]

\* local_state of every stage after transition_to(to_stage)
transition_to(w, cur, to_stage, locals) ==
    [locals EXCEPT ![to_stage] =
        propagated_state(locals[cur], get_propagation_config(w, cur, to_stage))]

----------------------------------------------------------------------------
(* Tools of the stock stages *)

tool_params(tool_name) ==
    CASE tool_name = "search" -> {"symbol"}
      [] tool_name = "add_to_cart" -> {"symbol", "quantity"}
      [] OTHER -> {}

\* Tool.execute(local_state, **args): what the tool's function does.
\* A keyword the function does not take makes the call raise.
tool_execute(tool_name, st, args) ==
    IF ~(DOMAIN args \subseteq tool_params(tool_name))
    THEN [raised |-> TRUE, state |-> st, result |-> EmptyState]
    ELSE CASE tool_name = "search" ->
                [raised |-> FALSE, state |-> st, result |-> args]
           [] tool_name = "add_to_cart" ->
                [raised |-> FALSE,
                 state |-> Set(Set(st, "symbol", args["symbol"]),
                               "quantity", args["quantity"]),
                 result |-> args]
           [] tool_name = "buy" ->
                [raised |-> FALSE, state |-> st,
                 result |-> [symbol |-> Get(st, "symbol"),
                             quantity |-> Get(st, "quantity")]]
           [] OTHER ->
                [raised |-> FALSE, state |-> st,
                 result |-> [result |-> "Holdings"]]

\* call_tool handing a raised exception back as a result
call_tool_returns_raise(w, stage_name, tool_name, args, locals) ==
    IF tool_name \notin Range(w.tools[stage_name])
    THEN [type |-> "error", state |-> locals[stage_name], result |-> EmptyState]
    ELSE LET run == tool_execute(tool_name, locals[stage_name], args)
         IN [type |-> "tool_result", state |-> run.state, result |-> run.result]

\* call_tool running the tool on a copy of the stage's local_state
call_tool_on_copy(w, stage_name, tool_name, args, locals) ==
    IF tool_name \notin Range(w.tools[stage_name])
    THEN [type |-> "error", state |-> locals[stage_name], result |-> EmptyState]
    ELSE LET run == tool_execute(tool_name, locals[stage_name], args)
         IN IF run.raised
            THEN [type |-> "tool_error", state |-> locals[stage_name],
                  result |-> EmptyState]
            ELSE [type |-> "tool_result", state |-> locals[stage_name],
                  result |-> run.result]

\* the dict Workflow.call_tool returns, with the stage's local_state afterwards
call_tool(w, stage_name, tool_name, args, locals) ==
    IF tool_name \notin Range(w.tools[stage_name])
    THEN [type |-> "error", state |-> locals[stage_name], result |-> EmptyState]
    ELSE LET run == tool_execute(tool_name, locals[stage_name], args)
         IN IF run.raised
            THEN [type |-> "tool_error", state |-> run.state, result |-> EmptyState]
            ELSE [type |-> "tool_result", state |-> run.state, result |-> run.result]

----------------------------------------------------------------------------
(* Orchestrator *)

\* populate_state that sets only the keys the stage does not hold yet
populate_state_keeps_existing(st, state_data) ==
    [k \in (DOMAIN st) \cup (DOMAIN state_data) |->
        IF k \in DOMAIN st THEN st[k] ELSE state_data[k]]

\* populate_state: every supplied key is set in the stage's local_state
populate_state(st, state_data) ==
    [k \in (DOMAIN st) \cup (DOMAIN state_data) |->
        IF k \in DOMAIN state_data THEN state_data[k] ELSE st[k]]

----------------------------------------------------------------------------
(* Server *)

Active(s) == s \in Range(sessions)

RECURSIVE HistoryEntries(_)
HistoryEntries(ids) ==
    IF ids = {} THEN 0
    ELSE LET s == CHOOSE x \in ids : TRUE
         IN Len(history[s]) + HistoryEntries(ids \ {s})

\* the bound on the model: room for one more history entry
HistoryRoom(bound) == HistoryEntries(SessionIds) < bound

Init ==
    /\ workflow \in Workflows
    /\ cursor = None
    /\ local_state = [s \in StageNames |-> EmptyState]
    /\ sessions = <<>>
    /\ state = [s \in SessionIds |-> EmptyState]
    /\ history = [s \in SessionIds |-> <<>>]
    /\ pending_transition = [s \in SessionIds |-> None]
    /\ response = [type |-> None]
    /\ serving = <<>>
    /\ store = None

\* create_session whose Orchestrator does not run workflow.initialize() when
\* the workflow already has a cursor
create_session_keeps_stage_data(s) ==
    /\ IF Active(s)
       THEN /\ response' = [type |-> "json_error", error |-> "already exists"]
            /\ UNCHANGED <<cursor, local_state, sessions, state, history,
                           pending_transition>>
       ELSE /\ local_state' = IF cursor = None
                              THEN [st \in StageNames |-> EmptyState]
                              ELSE local_state
            /\ cursor' = IF cursor = None THEN initial_cursor(workflow)
                         ELSE cursor
            /\ sessions' = Append(sessions, s)
            /\ state' = [state EXCEPT ![s] = EmptyState]
            /\ history' = [history EXCEPT ![s] = <<>>]
            /\ pending_transition' = [pending_transition EXCEPT ![s] = None]
            /\ response' = [type |-> "stage_message",
                            stage |-> cursor', state |-> local_state'[cursor']]
    /\ UNCHANGED workflow

\* create_session building a new engine for an id that is already active
create_session_replaces_existing(s) ==
    /\ local_state' = [st \in Range(workflow.stages) |-> EmptyState]
    /\ cursor' = initial_cursor(workflow)
    /\ sessions' = IF Active(s) THEN sessions ELSE Append(sessions, s)
    /\ state' = [state EXCEPT ![s] = EmptyState]
    /\ history' = [history EXCEPT ![s] = <<>>]
    /\ pending_transition' = [pending_transition EXCEPT ![s] = None]
    /\ response' = [type |-> "stage_message",
                    stage |-> initial_cursor(workflow),
                    state |-> EmptyState]
    /\ UNCHANGED workflow

\* Server.create_session: Orchestrator.__post_init__ runs workflow.initialize()
create_session(s) ==
    /\ IF Active(s)
       THEN /\ response' = [type |-> "json_error", error |-> "already exists"]
            /\ UNCHANGED <<cursor, local_state, sessions, state, history,
                           pending_transition>>
       ELSE /\ local_state' = [st \in Range(workflow.stages) |-> EmptyState]
            /\ cursor' = initial_cursor(workflow)
            /\ sessions' = Append(sessions, s)
            /\ state' = [state EXCEPT ![s] = EmptyState]
            /\ history' = [history EXCEPT ![s] = <<>>]
            /\ pending_transition' = [pending_transition EXCEPT ![s] = None]
            /\ response' = [type |-> "stage_message",
                            stage |-> initial_cursor(workflow),
                            state |-> EmptyState]
    /\ UNCHANGED workflow

\* Server.terminate_session
terminate_session(s) ==
    /\ IF Active(s)
       THEN /\ sessions' = SelectSeq(sessions, LAMBDA x : x # s)
            /\ state' = [state EXCEPT ![s] = EmptyState]
            /\ history' = [history EXCEPT ![s] = <<>>]
            /\ pending_transition' = [pending_transition EXCEPT ![s] = None]
            /\ response' = [type |-> "terminated"]
       ELSE /\ response' = [type |-> "json_error", error |-> "not found"]
            /\ UNCHANGED <<sessions, state, history, pending_transition>>
    /\ UNCHANGED <<workflow, cursor, local_state>>

\* Server.handle_request for a session id that is not in Server.sessions
handle_request_not_found(s) ==
    /\ ~Active(s)
    /\ response' = [type |-> "json_error", error |-> "not found, create session first"]
    /\ UNCHANGED <<workflow, cursor, local_state, sessions, state, history,
                   pending_transition>>

\* handshake that starts the workflow over before rendering the stage
handshake_reinitializes(s) ==
    /\ Active(s)
    /\ cursor' = initial_cursor(workflow)
    /\ local_state' = [st \in StageNames |-> EmptyState]
    /\ response' = [type |-> "stage_message",
                    stage |-> initial_cursor(workflow), state |-> EmptyState]
    /\ UNCHANGED <<workflow, sessions, state, history, pending_transition>>

\* LanguageEngine.process: {"action": "handshake"}
handshake(s) ==
    /\ Active(s)
    /\ response' = [type |-> "stage_message", stage |-> cursor,
                    state |-> local_state[cursor]]
    /\ UNCHANGED <<workflow, cursor, local_state, sessions, state, history,
                   pending_transition>>

\* execute_method_call recording in the history every call it hands to a
\* registered tool, the failed ones too
execute_method_call_records_failures(s, tool_name, args) ==
    /\ Active(s)
    /\ tool_params(tool_name) \subseteq DOMAIN args
    /\ LET result == call_tool(workflow, cursor, tool_name, args, local_state)
       IN /\ local_state' = [local_state EXCEPT ![cursor] = result.state]
          /\ history' = IF result.type = "error" THEN history
                        ELSE [history EXCEPT ![s] = Append(@,
                                [action |-> "method_call", task |-> tool_name,
                                 args |-> args, result |-> result.result])]
          /\ IF result.type = "tool_result"
             THEN response' = [type |-> "tool_result",
                               tool_name |-> tool_name,
                               result |-> result.result]
             ELSE response' = [type |-> "error_result",
                               message |-> [kind |-> result.type,
                                            tool |-> tool_name,
                                            stage |-> cursor],
                               allowed |-> <<>>, has_allowed |-> FALSE]
    /\ UNCHANGED <<workflow, cursor, sessions, state, pending_transition>>

\* LanguageEngine.process: {"action": "method_call", "tool": ..., "args": ...}
\* running Orchestrator.execute_method_call. The callers pass every
\* parameter the tool declares, and possibly keywords it does not take.
execute_method_call(s, tool_name, args) ==
    /\ Active(s)
    /\ tool_params(tool_name) \subseteq DOMAIN args
    /\ LET result == call_tool(workflow, cursor, tool_name, args, local_state)
       IN /\ local_state' = [local_state EXCEPT ![cursor] = result.state]
          /\ IF result.type = "tool_result"
             THEN /\ history' = [history EXCEPT ![s] = Append(@,
                        [action |-> "method_call", task |-> tool_name,
                         args |-> args, result |-> result.result])]
                  /\ response' = [type |-> "tool_result",
                                  tool_name |-> tool_name,
                                  result |-> result.result]
             ELSE /\ history' = history
                  /\ response' = [type |-> "error_result",
                                  message |-> [kind |-> result.type,
                                               tool |-> tool_name,
                                               stage |-> cursor],
                                  allowed |-> <<>>, has_allowed |-> FALSE]
    /\ UNCHANGED <<workflow, cursor, sessions, state, pending_transition>>

\* Workflow.get_stage raises ValueError for a name that is not registered
get_stage_raises(w, stage_name) == stage_name \notin Range(w.stages)

\* execute_stage_transition inserting the entry at the head of the history
execute_stage_transition_logs_first(s, target_stage) ==
    /\ Active(s)
    /\ LET validation == validate_transition(workflow, cursor, target_stage,
                                             state[s], local_state)
       IN IF ~validation.valid
          THEN IF validation.reason = "missing_state"
               THEN /\ pending_transition' =
                           [pending_transition EXCEPT ![s] = target_stage]
                    /\ response' = [type |-> "state_input_required",
                                    target_stage |-> target_stage,
                                    required_fields |-> validation.missing]
                    /\ UNCHANGED <<cursor, local_state, history>>
               ELSE /\ response' = [type |-> "error_result",
                                    message |-> [kind |-> "cannot_transition",
                                                 from |-> cursor,
                                                 to |-> target_stage],
                                    allowed |-> validation.allowed,
                                    has_allowed |-> TRUE]
                    /\ UNCHANGED <<cursor, local_state, history,
                                   pending_transition>>
          ELSE /\ local_state' = transition_to(workflow, cursor, target_stage,
                                               local_state)
               /\ cursor' = target_stage
               /\ pending_transition' = [pending_transition EXCEPT ![s] = None]
               /\ history' = [history EXCEPT ![s] =
                        <<[action |-> "stage_transition", from |-> cursor,
                           to |-> target_stage]>> \o @]
               /\ response' = [type |-> "transition_result",
                               from_stage |-> cursor,
                               to_stage |-> target_stage]
    /\ UNCHANGED <<workflow, sessions, state>>

\* execute_stage_transition moving the cursor to a listed target without
\* looking the target up
execute_stage_transition_enters_unregistered(s, target_stage) ==
    /\ Active(s)
    /\ LET validation == validate_transition(workflow, cursor, target_stage,
                                             state[s], local_state)
       IN IF /\ can_transition_to(workflow, cursor, target_stage)
             /\ get_stage_raises(workflow, target_stage)
          THEN /\ cursor' = target_stage
               /\ pending_transition' = [pending_transition EXCEPT ![s] = None]
               /\ history' = [history EXCEPT ![s] = Append(@,
                        [action |-> "stage_transition", from |-> cursor,
                         to |-> target_stage])]
               /\ response' = [type |-> "transition_result",
                               from_stage |-> cursor,
                               to_stage |-> target_stage]
               /\ UNCHANGED local_state
          ELSE IF ~validation.valid
          THEN IF validation.reason = "missing_state"
               THEN /\ pending_transition' =
                           [pending_transition EXCEPT ![s] = target_stage]
                    /\ response' = [type |-> "state_input_required",
                                    target_stage |-> target_stage,
                                    required_fields |-> validation.missing]
                    /\ UNCHANGED <<cursor, local_state, history>>
               ELSE /\ response' = [type |-> "error_result",
                                    message |-> [kind |-> "cannot_transition",
                                                 from |-> cursor,
                                                 to |-> target_stage],
                                    allowed |-> validation.allowed,
                                    has_allowed |-> TRUE]
                    /\ UNCHANGED <<cursor, local_state, history,
                                   pending_transition>>
          ELSE /\ local_state' = transition_to(workflow, cursor, target_stage,
                                               local_state)
               /\ cursor' = target_stage
               /\ pending_transition' = [pending_transition EXCEPT ![s] = None]
               /\ history' = [history EXCEPT ![s] = Append(@,
                        [action |-> "stage_transition", from |-> cursor,
                         to |-> target_stage])]
               /\ response' = [type |-> "transition_result",
                               from_stage |-> cursor,
                               to_stage |-> target_stage]
    /\ UNCHANGED <<workflow, sessions, state>>

\* LanguageEngine.process: {"action": "stage_transition", "stage": ...}
\* running Orchestrator.execute_stage_transition; when the target is listed
\* by the current stage but is not registered, validate_transition's
\* get_stage(to_stage) raises and process returns the exception's text
execute_stage_transition(s, target_stage) ==
    /\ Active(s)
    /\ LET validation == validate_transition(workflow, cursor, target_stage,
                                             state[s], local_state)
       IN IF /\ can_transition_to(workflow, cursor, target_stage)
             /\ get_stage_raises(workflow, target_stage)
          THEN /\ response' = [type |-> "json_error",
                               error |-> "stage_not_found",
                               stage |-> target_stage]
               /\ UNCHANGED <<cursor, local_state, history,
                              pending_transition>>
          ELSE IF ~validation.valid
          THEN IF validation.reason = "missing_state"
               THEN /\ pending_transition' =
                           [pending_transition EXCEPT ![s] = target_stage]
                    /\ response' = [type |-> "state_input_required",
                                    target_stage |-> target_stage,
                                    required_fields |-> validation.missing]
                    /\ UNCHANGED <<cursor, local_state, history>>
               ELSE /\ response' = [type |-> "error_result",
                                    message |-> [kind |-> "cannot_transition",
                                                 from |-> cursor,
                                                 to |-> target_stage],
                                    allowed |-> validation.allowed,
                                    has_allowed |-> TRUE]
                    /\ UNCHANGED <<cursor, local_state, history,
                                   pending_transition>>
          ELSE /\ local_state' = transition_to(workflow, cursor, target_stage,
                                               local_state)
               /\ cursor' = target_stage
               /\ pending_transition' = [pending_transition EXCEPT ![s] = None]
               /\ history' = [history EXCEPT ![s] = Append(@,
                        [action |-> "stage_transition", from |-> cursor,
                         to |-> target_stage])]
               /\ response' = [type |-> "transition_result",
                               from_stage |-> cursor,
                               to_stage |-> target_stage]
    /\ UNCHANGED <<workflow, sessions, state>>

\* state_input that re-issues the pending transition once the data is stored
state_input_retries_pending(s, state_data) ==
    /\ Active(s)
    /\ LET populated == [local_state EXCEPT ![cursor] = populate_state(@, state_data)]
           target == pending_transition[s]
       IN IF /\ target # None
             /\ validate_transition(workflow, cursor, target, state[s], populated).valid
          THEN /\ local_state' = transition_to(workflow, cursor, target, populated)
               /\ cursor' = target
               /\ pending_transition' = [pending_transition EXCEPT ![s] = None]
               /\ response' = [type |-> "transition_result",
                               from_stage |-> cursor, to_stage |-> target]
          ELSE /\ local_state' = populated
               /\ response' = [type |-> "stage_message", stage |-> cursor,
                               state |-> populated[cursor]]
               /\ UNCHANGED <<cursor, pending_transition>>
    /\ UNCHANGED <<workflow, sessions, state, history>>

\* state_input that empties the pending-transition slot
state_input_clears_pending(s, state_data) ==
    /\ Active(s)
    /\ local_state' = [local_state EXCEPT ![cursor] = populate_state(@, state_data)]
    /\ pending_transition' = [pending_transition EXCEPT ![s] = None]
    /\ response' = [type |-> "stage_message", stage |-> cursor,
                    state |-> populate_state(local_state[cursor], state_data)]
    /\ UNCHANGED <<workflow, cursor, sessions, state, history>>

\* state_input that stores the supplied fields in the session's global state
\* as well
state_input_writes_global(s, state_data) ==
    /\ Active(s)
    /\ local_state' = [local_state EXCEPT ![cursor] = populate_state(@, state_data)]
    /\ state' = [state EXCEPT ![s] = populate_state(@, state_data)]
    /\ response' = [type |-> "stage_message", stage |-> cursor,
                    state |-> populate_state(local_state[cursor], state_data)]
    /\ UNCHANGED <<workflow, cursor, sessions, history, pending_transition>>

\* LanguageEngine.process: {"action": "state_input", "data": ...}
\* running Orchestrator.populate_state
state_input(s, state_data) ==
    /\ Active(s)
    /\ local_state' = [local_state EXCEPT ![cursor] = populate_state(@, state_data)]
    /\ response' = [type |-> "stage_message", stage |-> cursor,
                    state |-> populate_state(local_state[cursor], state_data)]
    /\ UNCHANGED <<workflow, cursor, sessions, state, history, pending_transition>>

\* LanguageEngine.process: any other (or no) action type
unknown_action(s) ==
    /\ Active(s)
    /\ response' = [type |-> "error_result",
                    message |-> [kind |-> "unknown_action_type"],
                    allowed |-> <<>>, has_allowed |-> FALSE]
    /\ UNCHANGED <<workflow, cursor, local_state, sessions, state, history,
                   pending_transition>>

\* the envelopes that make process or the orchestrator raise: llm_json["tool"]
\* and llm_json["stage"] raise KeyError, populate_state raises on data that
\* has no items(), llm_json.get raises on an envelope that is not a mapping
MalformedEnvelopes ==
    {"method_call_without_tool", "stage_transition_without_stage",
     "state_input_data_not_mapping", "envelope_not_mapping"}

\* the text of the exception an envelope raises
exception_text(envelope) ==
    CASE envelope = "method_call_without_tool" -> "'tool'"
      [] envelope = "stage_transition_without_stage" -> "'stage'"
      [] envelope = "state_input_data_not_mapping" ->
            "'list' object has no attribute 'items'"
      [] OTHER -> "'list' object has no attribute 'get'"

\* process letting the exception of populate_state reach the caller
malformed_envelope_propagates(s, envelope) ==
    /\ Active(s)
    /\ response' = IF envelope = "state_input_data_not_mapping"
                   THEN [type |-> "raised", error |-> exception_text(envelope)]
                   ELSE [type |-> "json_error", error |-> exception_text(envelope)]
    /\ UNCHANGED <<workflow, cursor, local_state, sessions, state, history,
                   pending_transition>>

\* LanguageEngine.process: an envelope that raises inside the try block;
\* the except clause returns get_error_message(str(e))
malformed_envelope(s, envelope) ==
    /\ Active(s)
    /\ response' = [type |-> "json_error", error |-> exception_text(envelope)]
    /\ UNCHANGED <<workflow, cursor, local_state, sessions, state, history,
                   pending_transition>>

\* the envelopes and arguments a caller sends
ToolInputs == ToolNames \cup {"nonexistent_tool"}
ArgInputs == {EmptyState, [symbol |-> "GOOGL"],
              [symbol |-> "AAPL", quantity |-> "10"]}
StageInputs == StageNames \cup {"nonexistent_stage"}
DataInputs == States

\* the calls the callers named ids make, while the history has room
ServerNext(ids, bound) ==
    \/ \E s \in ids : create_session(s) /\ UNCHANGED <<serving, store>>
    \/ \E s \in ids : terminate_session(s) /\ UNCHANGED <<serving, store>>
    \/ \E s \in ids : handle_request_not_found(s) /\ UNCHANGED <<serving, store>>
    \/ \E s \in ids : handshake(s) /\ UNCHANGED <<serving, store>>
    \/ \E s \in ids, t \in ToolInputs, a \in ArgInputs :
            /\ HistoryRoom(bound)
            /\ execute_method_call(s, t, a)
            /\ UNCHANGED <<serving, store>>
    \/ \E s \in ids, t \in StageInputs :
            /\ HistoryRoom(bound)
            /\ execute_stage_transition(s, t)
            /\ UNCHANGED <<serving, store>>
    \/ \E s \in ids, d \in DataInputs : state_input(s, d) /\ UNCHANGED <<serving, store>>
    \/ \E s \in ids : unknown_action(s) /\ UNCHANGED <<serving, store>>
    \/ \E s \in ids, e \in MalformedEnvelopes :
            malformed_envelope(s, e) /\ UNCHANGED <<serving, store>>

\* a Server with two callers
Next == ServerNext(SessionIds, MaxSharedHistory)

Spec == Init /\ [][Next]_vars

\* a Server with one caller: one LanguageEngine and its Orchestrator
EngineNext == ServerNext({"alice"}, MaxHistory)

EngineSpec == Init /\ [][EngineNext]_vars

----------------------------------------------------------------------------
(* A workflow Workflow.add_stage accepts besides the stock one: browse     *)
(* lists itself and lists portfolio, which was never registered            *)

LoopStages == <<"browse", "transact">>

LoopTransitions ==
    [s \in Range(LoopStages) |->
        IF s = "browse" THEN <<"transact", "portfolio", "browse">>
        ELSE <<"browse">>]

LoopPropagation ==
    (<<"browse", "transact">> :> ConfigList(<<"symbol", "quantity">>))
    @@ (<<"browse", "browse">> :> ConfigList(<<"symbol">>))
    @@ (<<"transact", "browse">> :> ConfigStateTransferAll)

LoopWorkflow ==
    [name |-> "stock_exchange",
     stages |-> LoopStages,
     transitions |-> LoopTransitions,
     prerequisites |-> [s \in Range(LoopStages) |-> StockPrerequisites[s]],
     tools |-> [s \in Range(LoopStages) |-> StockTools[s]],
     state_propagation |-> LoopPropagation]

\* a Server constructed with either workflow
WorkflowsInit ==
    /\ workflow \in {StockWorkflow, LoopWorkflow}
    /\ cursor = None
    /\ local_state = [s \in Range(workflow.stages) |-> EmptyState]
    /\ sessions = <<>>
    /\ state = [s \in SessionIds |-> EmptyState]
    /\ history = [s \in SessionIds |-> <<>>]
    /\ pending_transition = [s \in SessionIds |-> None]
    /\ response = [type |-> None]
    /\ serving = <<>>
    /\ store = None

\* one caller of a Server constructed with either workflow
WorkflowsSpec == WorkflowsInit /\ [][EngineNext]_vars

----------------------------------------------------------------------------
(* The HTTP transport: HTTPRequestHandler.do_POST in front of the Server,  *)
(* run by http.server's HTTPServer.serve_forever()                         *)

\* the bodies posted, without their session_id
PostedMessages ==
    {[action |-> "handshake"],
     [action |-> "method_call", tool |-> "add_to_cart",
      args |-> [symbol |-> "AAPL", quantity |-> "10"]],
     [action |-> "method_call"],
     [action |-> "stage_transition", stage |-> "transact"],
     [action |-> "stage_transition", stage |-> "portfolio"],
     [action |-> "state_input", data |-> [symbol |-> "GOOGL"]],
     [action |-> "unknown"]}

\* Server.handle_request(session_id, message): process routes the message
handle_request(s, message) ==
    IF ~Active(s)
    THEN handle_request_not_found(s)
    ELSE CASE message.action = "handshake" -> handshake(s)
           [] message.action = "method_call" ->
                IF "tool" \in DOMAIN message
                THEN execute_method_call(s, message.tool, message.args)
                ELSE malformed_envelope(s, "method_call_without_tool")
           [] message.action = "stage_transition" ->
                IF "stage" \in DOMAIN message
                THEN execute_stage_transition(s, message.stage)
                ELSE malformed_envelope(s, "stage_transition_without_stage")
           [] message.action = "state_input" -> state_input(s, message.data)
           [] OTHER -> unknown_action(s)

\* the requests of session s the handler has begun and not finished
InProgress(s) == {i \in DOMAIN serving : serving[i].session_id = s}

\* do_POST of a server that hands every request to a thread of its own
do_POST_begin_threaded(session_id, message) ==
    /\ Len(serving) < 2
    /\ IF session_id = None
       THEN \E s \in SessionIds :
                /\ ~Active(s)
                /\ create_session(s)
                /\ serving' = Append(serving,
                                     [session_id |-> s, message |-> message])
       ELSE /\ serving' = Append(serving, [session_id |-> session_id,
                                           message |-> message])
            /\ UNCHANGED <<workflow, cursor, local_state, sessions, state,
                           history, pending_transition, response>>
    /\ UNCHANGED store

\* do_POST up to run_until_complete: the body is read and, when it names
\* no session, one is created. serve_forever() takes the next request only
\* when the handler of the previous one has returned.
do_POST_begin(session_id, message) ==
    /\ serving = <<>>
    /\ IF session_id = None
       THEN \E s \in SessionIds :
                /\ ~Active(s)
                /\ create_session(s)
                /\ serving' = Append(serving,
                                     [session_id |-> s, message |-> message])
       ELSE /\ serving' = Append(serving, [session_id |-> session_id,
                                           message |-> message])
            /\ UNCHANGED <<workflow, cursor, local_state, sessions, state,
                           history, pending_transition, response>>
    /\ UNCHANGED store

\* do_POST from run_until_complete(handle_request(...)) on: the request is
\* processed to its end and the response is written
do_POST_complete(i) ==
    /\ i \in DOMAIN serving
    /\ handle_request(serving[i].session_id, serving[i].message)
    /\ serving' = SubSeq(serving, 1, i - 1) \o SubSeq(serving, i + 1, Len(serving))
    /\ UNCHANGED store

\* the requests the clients post, while the history has room
TransportNext ==
    \/ \E session_id \in SessionIds \cup {None}, message \in PostedMessages :
            do_POST_begin(session_id, message)
    \/ \E i \in 1..2 :
            /\ i \in DOMAIN serving
            /\ serving[i].message.action \in {"method_call", "stage_transition"}
                  => HistoryRoom(MaxHistory)
            /\ do_POST_complete(i)

TransportSpec == Init /\ [][TransportNext]_vars

----------------------------------------------------------------------------
(* Rendering: the text process returns for a result *)

\* StageMessage().render(stage, workflow, state): the stage, its local data,
\* its tools and its transitions
StageMessage_render(w, stage, st) ==
    [has_context |-> TRUE, stage |-> stage, state |-> st,
     tools |-> w.tools[stage], transitions |-> w.transitions[stage]]

\* ComprehensivePresentation(content).render_text(orchestrator): returns ""
render_text(content, w, cur, locals) ==
    [has_context |-> FALSE, text |-> ""]

\* the text process returns for the result r, with the orchestrator at
\* stage cur and the stages holding locals
rendered(r, w, cur, locals) ==
    CASE r.type = "stage_message" -> StageMessage_render(w, r.stage, r.state)
      [] r.type = "json_error" -> [has_context |-> FALSE, text |-> r.error]
      [] OTHER -> render_text(r, w, cur, locals)

----------------------------------------------------------------------------
(* Building a Workflow: add_stage, the transitions the workflow decorator  *)
(* assigns after the stages are added, and initialize()                    *)

\* the stages a builder registers
GraphStages == {"a", "b", "c"}

\* the transitions lists a Stage is given
TargetLists == {<<>>, <<"a">>, <<"b">>, <<"c">>, <<"a", "b">>, <<"a", "c">>,
                <<"b", "c">>, <<"a", "b", "c">>}

\* Workflow.__init__
EmptyWorkflow ==
    [name |-> "graph", stages |-> <<>>, transitions |-> <<>>,
     prerequisites |-> <<>>, tools |-> <<>>, state_propagation |-> <<>>,
     initial_stage |-> None, incoming |-> <<>>]

\* _build_incoming_edges: the index over the registered stages
build_incoming_edges(w) ==
    [target \in Range(w.stages) |-> incoming_edges(w, target)]

RECURSIVE EdgeCount(_, _)
EdgeCount(w, names) ==
    IF names = <<>> THEN 0
    ELSE Len(w.transitions[Head(names)]) + EdgeCount(w, Tail(names))

\* Workflow.add_stage(Stage(name, transitions=targets), initial)
add_stage(name, targets, initial) ==
    /\ name \notin Range(workflow.stages)
    /\ LET added == [workflow EXCEPT
                        !.stages = Append(@, name),
                        !.transitions =
                            [x \in Range(workflow.stages) \cup {name} |->
                                IF x = name THEN targets
                                ELSE workflow.transitions[x]],
                        !.initial_stage =
                            IF initial \/ @ = None THEN name ELSE @]
       IN workflow' = [added EXCEPT !.incoming = build_incoming_edges(added)]
    /\ local_state' = [x \in Range(workflow.stages) \cup {name} |->
                          IF x = name THEN EmptyState ELSE local_state[x]]
    /\ UNCHANGED <<cursor, sessions, state, history, pending_transition,
                   response>>

\* workflow.__call__: workflow_obj.stages[from_stage].transitions = [...]
assign_transitions(from_stage, targets) ==
    /\ from_stage \in Range(workflow.stages)
    /\ workflow' = [workflow EXCEPT !.transitions[from_stage] = targets]
    /\ UNCHANGED <<cursor, local_state, sessions, state, history,
                   pending_transition, response>>

\* Workflow.initialize(); with no stage registered, list(...)[0] raises
\* after the index was rebuilt
initialize ==
    /\ workflow' = [workflow EXCEPT !.incoming = build_incoming_edges(workflow)]
    /\ local_state' = [x \in Range(workflow.stages) |-> EmptyState]
    /\ cursor' = IF workflow.stages = <<>> THEN cursor
                 ELSE initial_cursor(workflow)
    /\ UNCHANGED <<sessions, state, history, pending_transition, response>>

BuildInit ==
    /\ workflow = EmptyWorkflow
    /\ cursor = None
    /\ local_state = EmptyState
    /\ sessions = <<>>
    /\ state = [s \in SessionIds |-> EmptyState]
    /\ history = [s \in SessionIds |-> <<>>]
    /\ pending_transition = [s \in SessionIds |-> None]
    /\ response = [type |-> None]
    /\ serving = <<>>
    /\ store = None

\* the builder's calls, while the graph has room for the edges
BuildNext ==
    \/ \E name \in GraphStages, targets \in TargetLists, initial \in BOOLEAN :
            /\ EdgeCount(workflow, workflow.stages) + Len(targets) <= MaxEdges
            /\ add_stage(name, targets, initial)
            /\ UNCHANGED <<serving, store>>
    \/ \E from_stage \in GraphStages, targets \in TargetLists :
            /\ from_stage \in Range(workflow.stages)
            /\ EdgeCount(workflow, workflow.stages)
                    - Len(workflow.transitions[from_stage]) + Len(targets)
                  <= MaxEdges
            /\ assign_transitions(from_stage, targets)
            /\ UNCHANGED <<serving, store>>
    \/ initialize /\ UNCHANGED <<serving, store>>

BuildSpec == BuildInit /\ [][BuildNext]_vars

----------------------------------------------------------------------------
(* PostgreSQLStateManager: the row of one session in workflow_sessions, the  *)
(* rows of state_history, and two coroutines that each run one update call  *)
(* on that session. Every await of a call is a step of its own.             *)

StoreCallers == {"c1", "c2"}
\* the state_json and stage_id arguments of the calls
StateJsons == {[symbol |-> "AAPL"], [quantity |-> "10"]}
StoreStages == {"browse", "transact"}

\* {**current, **state_json}
merged(current, state_json) ==
    [k \in (DOMAIN current) \cup (DOMAIN state_json) |->
        IF k \in DOMAIN state_json THEN state_json[k] ELSE current[k]]

\* stage_states.get(stage_id, {})
stage_state_of(stage_states, stage_id) ==
    IF stage_id \in DOMAIN stage_states THEN stage_states[stage_id]
    ELSE EmptyState

\* stage_states[stage_id] = value
with_stage(stage_states, stage_id, value) ==
    [k \in (DOMAIN stage_states) \cup {stage_id} |->
        IF k = stage_id THEN value ELSE stage_states[k]]

\* the row create_session(session_id, workflow_name, "browse") inserts;
\* version counts the UPDATE statements run on the row since
CreatedRow ==
    [current_stage |-> "browse",
     global_state |-> EmptyState,
     stage_states |-> ("browse" :> EmptyState),
     version |-> 0]

\* what workflow_sessions holds for a session id that has no row
NoRow ==
    [current_stage |-> None, global_state |-> EmptyState,
     stage_states |-> EmptyState, version |-> 0]

\* a coroutine that has not called yet
NoCall ==
    [op |-> None, pc |-> "idle", stage_id |-> None, state_json |-> EmptyState,
     fetched |-> None]

\* a call that has raised ValueError
raised_call(op, error) ==
    [op |-> op, pc |-> "raised", stage_id |-> None, state_json |-> EmptyState,
     fetched |-> error]

\* the column a call SELECTs before it computes what it writes
fetched_column(row, op) ==
    IF op = "update_global_state" THEN row.global_state ELSE row.stage_states

\* updated_row with update_current_stage storing an empty state for the
\* stage it moves to
updated_row_resets_stage(row, call) ==
    CASE call.op = "update_global_state" ->
            [row EXCEPT !.global_state = merged(call.fetched, call.state_json),
                        !.version = @ + 1]
      [] call.op = "update_stage_state" ->
            [row EXCEPT !.stage_states =
                            with_stage(call.fetched, call.stage_id,
                                merged(stage_state_of(call.fetched, call.stage_id),
                                       call.state_json)),
                        !.version = @ + 1]
      [] OTHER ->
            [row EXCEPT !.current_stage = call.stage_id,
                        !.stage_states =
                            with_stage(call.fetched, call.stage_id, EmptyState),
                        !.version = @ + 1]

\* updated_row with an UPDATE statement that leaves version alone
updated_row_keeps_version(row, call) ==
    CASE call.op = "update_global_state" ->
            [row EXCEPT !.global_state = merged(call.fetched, call.state_json)]
      [] call.op = "update_stage_state" ->
            [row EXCEPT !.stage_states =
                            with_stage(call.fetched, call.stage_id,
                                merged(stage_state_of(call.fetched, call.stage_id),
                                       call.state_json))]
      [] OTHER ->
            [row EXCEPT !.current_stage = call.stage_id,
                        !.stage_states =
                            IF call.stage_id \in DOMAIN call.fetched
                            THEN call.fetched
                            ELSE with_stage(call.fetched, call.stage_id, EmptyState)]

\* the row after the UPDATE statement of call, computed from what the call
\* fetched; the statement sets the columns it names and version = version + 1
updated_row(row, call) ==
    CASE call.op = "update_global_state" ->
            [row EXCEPT !.global_state = merged(call.fetched, call.state_json),
                        !.version = @ + 1]
      [] call.op = "update_stage_state" ->
            [row EXCEPT !.stage_states =
                            with_stage(call.fetched, call.stage_id,
                                merged(stage_state_of(call.fetched, call.stage_id),
                                       call.state_json)),
                        !.version = @ + 1]
      [] OTHER ->
            [row EXCEPT !.current_stage = call.stage_id,
                        !.stage_states =
                            IF call.stage_id \in DOMAIN call.fetched
                            THEN call.fetched
                            ELSE with_stage(call.fetched, call.stage_id, EmptyState),
                        !.version = @ + 1]

server_vars == <<workflow, cursor, local_state, sessions, state, history,
                 pending_transition, response, serving>>

\* update_global_state up to the end of its fetchval, or to its raise when the
\* session has no row
update_global_state_select(c, state_json) ==
    /\ store.calls[c].pc = "idle"
    /\ store' = [store EXCEPT !.calls[c] =
            IF store.row = NoRow
            THEN raised_call("update_global_state", "not_found")
            ELSE [op |-> "update_global_state", pc |-> "execute",
                  stage_id |-> None, state_json |-> state_json,
                  fetched |-> fetched_column(store.row, "update_global_state")]]
    /\ UNCHANGED server_vars

\* update_stage_state without the check of its fetchval result
update_stage_state_select_unchecked(c, stage_id, state_json) ==
    /\ store.calls[c].pc = "idle"
    /\ store' = [store EXCEPT !.calls[c] =
            [op |-> "update_stage_state", pc |-> "execute",
             stage_id |-> stage_id, state_json |-> state_json,
             fetched |-> fetched_column(store.row, "update_stage_state")]]
    /\ UNCHANGED server_vars

\* update_stage_state up to the end of its fetchrow, or to its raise when the
\* session has no row
update_stage_state_select(c, stage_id, state_json) ==
    /\ store.calls[c].pc = "idle"
    /\ store' = [store EXCEPT !.calls[c] =
            IF store.row = NoRow
            THEN raised_call("update_stage_state", "not_found")
            ELSE [op |-> "update_stage_state", pc |-> "execute",
                  stage_id |-> stage_id, state_json |-> state_json,
                  fetched |-> fetched_column(store.row, "update_stage_state")]]
    /\ UNCHANGED server_vars

\* update_current_stage up to the end of its fetchval, or to its raise when the
\* session has no row
update_current_stage_select(c, stage_id) ==
    /\ store.calls[c].pc = "idle"
    /\ store' = [store EXCEPT !.calls[c] =
            IF store.row = NoRow
            THEN raised_call("update_current_stage", "not_found")
            ELSE [op |-> "update_current_stage", pc |-> "execute",
                  stage_id |-> stage_id, state_json |-> EmptyState,
                  fetched |-> fetched_column(store.row, "update_current_stage")]]
    /\ UNCHANGED server_vars

\* the UPDATE statement of the call c has in flight; it changes no row when
\* the session has none
update_execute(c) ==
    /\ store.calls[c].pc = "execute"
    /\ store' = [store EXCEPT !.row = IF @ = NoRow THEN NoRow
                                      ELSE updated_row(@, store.calls[c]),
                              !.calls[c].pc = "snapshot_select"]
    /\ UNCHANGED server_vars

\* _snapshot up to the end of its fetchrow; with no row it inserts
\* nothing and the call returns
snapshot_select(c) ==
    /\ store.calls[c].pc = "snapshot_select"
    /\ store' = [store EXCEPT
                    !.calls[c].fetched = IF store.row = NoRow THEN None
                                         ELSE store.row,
                    !.calls[c].pc = IF store.row = NoRow THEN "done"
                                    ELSE "snapshot_insert"]
    /\ UNCHANGED server_vars

\* the INSERT INTO state_history of _snapshot; the call returns
snapshot_insert(c) ==
    /\ store.calls[c].pc = "snapshot_insert"
    /\ store' = [store EXCEPT
                    !.state_history = Append(@, store.calls[c].fetched),
                    !.calls[c].fetched = None,
                    !.calls[c].pc = "done"]
    /\ UNCHANGED server_vars

\* a manager on which create_session has run for one session
StoreInit ==
    /\ workflow \in Workflows
    /\ cursor = None
    /\ local_state = [s \in StageNames |-> EmptyState]
    /\ sessions = <<>>
    /\ state = [s \in SessionIds |-> EmptyState]
    /\ history = [s \in SessionIds |-> <<>>]
    /\ pending_transition = [s \in SessionIds |-> None]
    /\ response = [type |-> None]
    /\ serving = <<>>
    /\ store = [row |-> CreatedRow,
                state_history |-> <<CreatedRow>>,
                calls |-> [c \in StoreCallers |-> NoCall]]

StoreNext ==
    \/ \E c \in StoreCallers, state_json \in StateJsons :
            update_global_state_select(c, state_json)
    \/ \E c \in StoreCallers, stage_id \in StoreStages, state_json \in StateJsons :
            update_stage_state_select(c, stage_id, state_json)
    \/ \E c \in StoreCallers, stage_id \in StoreStages :
            update_current_stage_select(c, stage_id)
    \/ \E c \in StoreCallers : update_execute(c)
    \/ \E c \in StoreCallers : snapshot_select(c)
    \/ \E c \in StoreCallers : snapshot_insert(c)

StoreSpec == StoreInit /\ [][StoreNext]_vars

----------------------------------------------------------------------------
(* PostgreSQLStateManager used by one caller at a time: a call on the      *)
(* session begins only when the one before it has returned or raised       *)

\* create_session up to the end of its fetchval, or to its raise when the
\* session has a row
create_session_select(c) ==
    /\ store.calls[c].pc = "idle"
    /\ store' = [store EXCEPT !.calls[c] =
            IF store.row # NoRow
            THEN raised_call("create_session", "already_exists")
            ELSE [op |-> "create_session", pc |-> "insert", stage_id |-> None,
                  state_json |-> EmptyState, fetched |-> None]]
    /\ UNCHANGED server_vars

\* the INSERT INTO workflow_sessions of create_session; no call runs
\* between its two statements here, so the session still has no row
create_session_insert(c) ==
    /\ store.calls[c].pc = "insert"
    /\ store.row = NoRow
    /\ store' = [store EXCEPT !.row = CreatedRow,
                              !.calls[c].pc = "snapshot_select"]
    /\ UNCHANGED server_vars

get_global_state(c) ==
    /\ store.calls[c].pc = "idle"
    /\ store' = [store EXCEPT !.calls[c] =
            IF store.row = NoRow
            THEN raised_call("get_global_state", "not_found")
            ELSE [op |-> "get_global_state", pc |-> "done", stage_id |-> None,
                  state_json |-> EmptyState,
                  fetched |-> store.row.global_state]]
    /\ UNCHANGED server_vars

get_stage_state(c, stage_id) ==
    /\ store.calls[c].pc = "idle"
    /\ store' = [store EXCEPT !.calls[c] =
            IF store.row = NoRow
            THEN raised_call("get_stage_state", "not_found")
            ELSE [op |-> "get_stage_state", pc |-> "done",
                  stage_id |-> stage_id, state_json |-> EmptyState,
                  fetched |-> stage_state_of(store.row.stage_states, stage_id)]]
    /\ UNCHANGED server_vars

\* get_state_history: the rows of state_history for the session, oldest
\* first; it does not look at workflow_sessions
get_state_history(c) ==
    /\ store.calls[c].pc = "idle"
    /\ store' = [store EXCEPT !.calls[c] =
            [op |-> "get_state_history", pc |-> "done", stage_id |-> None,
             state_json |-> EmptyState, fetched |-> store.state_history]]
    /\ UNCHANGED server_vars

\* delete_session up to the end of its DELETE FROM workflow_sessions; the
\* result it will return is whether a row was deleted
delete_session_row(c) ==
    /\ store.calls[c].pc = "idle"
    /\ store' = [store EXCEPT !.row = NoRow,
                              !.calls[c] =
            [op |-> "delete_session", pc |-> "delete_history",
             stage_id |-> None, state_json |-> EmptyState,
             fetched |-> IF store.row = NoRow THEN "DELETE 0" ELSE "DELETE 1"]]
    /\ UNCHANGED server_vars

\* the DELETE FROM state_history of delete_session
delete_session_history(c) ==
    /\ store.calls[c].pc = "delete_history"
    /\ store' = [store EXCEPT !.state_history = <<>>,
                              !.calls[c].pc = "done"]
    /\ UNCHANGED server_vars

\* the caller has its result or its exception and may call again
call_returns(c) ==
    /\ store.calls[c].pc \in {"done", "raised"}
    /\ store' = [store EXCEPT !.calls[c] = NoCall]
    /\ UNCHANGED server_vars

\* no call on the session is in flight
NoCallInFlight == \A c \in StoreCallers : store.calls[c].pc = "idle"

\* a manager whose tables are empty
StoreCallsInit ==
    /\ workflow \in Workflows
    /\ cursor = None
    /\ local_state = [s \in StageNames |-> EmptyState]
    /\ sessions = <<>>
    /\ state = [s \in SessionIds |-> EmptyState]
    /\ history = [s \in SessionIds |-> <<>>]
    /\ pending_transition = [s \in SessionIds |-> None]
    /\ response = [type |-> None]
    /\ serving = <<>>
    /\ store = [row |-> NoRow,
                state_history |-> <<>>,
                calls |-> [c \in StoreCallers |-> NoCall]]

\* the calls made one after the other, while the row has had fewer than
\* MaxUpdates updates
StoreCallsNext ==
    \/ \E c \in StoreCallers : NoCallInFlight /\ create_session_select(c)
    \/ \E c \in StoreCallers : create_session_insert(c)
    \/ \E c \in StoreCallers, state_json \in StateJsons :
            /\ NoCallInFlight
            /\ store.row.version < MaxUpdates
            /\ update_global_state_select(c, state_json)
    \/ \E c \in StoreCallers, stage_id \in StoreStages, state_json \in StateJsons :
            /\ NoCallInFlight
            /\ store.row.version < MaxUpdates
            /\ update_stage_state_select(c, stage_id, state_json)
    \/ \E c \in StoreCallers, stage_id \in StoreStages :
            /\ NoCallInFlight
            /\ store.row.version < MaxUpdates
            /\ update_current_stage_select(c, stage_id)
    \/ \E c \in StoreCallers : update_execute(c)
    \/ \E c \in StoreCallers : snapshot_select(c)
    \/ \E c \in StoreCallers : snapshot_insert(c)
    \/ \E c \in StoreCallers : NoCallInFlight /\ get_global_state(c)
    \/ \E c \in StoreCallers, stage_id \in StoreStages :
            NoCallInFlight /\ get_stage_state(c, stage_id)
    \/ \E c \in StoreCallers : NoCallInFlight /\ get_state_history(c)
    \/ \E c \in StoreCallers : NoCallInFlight /\ delete_session_row(c)
    \/ \E c \in StoreCallers : delete_session_history(c)
    \/ \E c \in StoreCallers : call_returns(c)

StoreCallsSpec == StoreCallsInit /\ [][StoreCallsNext]_vars

----------------------------------------------------------------------------
(* What a caller of session s can do in one step *)

\* LanguageEngine.process serving one envelope of session s
process(s) ==
    \/ handshake(s)
    \/ \E t \in ToolInputs, a \in ArgInputs : execute_method_call(s, t, a)
    \/ \E t \in StageInputs : execute_stage_transition(s, t)
    \/ \E d \in DataInputs : state_input(s, d)
    \/ unknown_action(s)
    \/ \E e \in MalformedEnvelopes : malformed_envelope(s, e)

\* the prerequisite fields of target that the global state of session s does
\* not hold and the edge from the current stage does not carry over
Unsatisfied(s, target) ==
    LET config == get_propagation_config(workflow, cursor, target)
        source == DOMAIN local_state[cursor]
        carried == IF config.kind = "all" THEN source
                   ELSE IF config.kind = "list"
                        THEN source \cap Range(config.fields)
                        ELSE {}
    IN {f \in Range(workflow.prerequisites[target]) :
            f \notin DOMAIN state[s] /\ f \notin carried}

LegalEdge(target) ==
    /\ cursor \in StageNames
    /\ target \in StageNames
    /\ target \in Range(workflow.transitions[cursor])

Last(seq) == seq[Len(seq)]

----------------------------------------------------------------------------
(* Claims *)

\* C1: session isolation. Creating session s, or dispatching any action in
\* it, leaves the current stage, the stage-local data, the pending
\* transition and the history of every other active session t unchanged.
\* The current stage and local data of a session are what its orchestrator
\* reads through get_current_stage(): the workflow's cursor and the stages'
\* local_state.
SessionIsolation ==
    [][\A s, t \in SessionIds :
          (s # t /\ Active(t) /\ (create_session(s) \/ process(s)))
          => /\ cursor' = cursor
             /\ local_state' = local_state
             /\ pending_transition'[t] = pending_transition[t]
             /\ history'[t] = history[t]]_vars

\* C2: transition atomicity. A transition attempt that is rejected -- the
\* target is not a legal edge, or a prerequisite is not satisfied -- leaves
\* the cursor, every stage's local data, the global data and the history
\* as they were.
TransitionAtomicity ==
    [][\A s \in SessionIds, t \in StageInputs :
          (/\ execute_stage_transition(s, t)
           /\ (~LegalEdge(t) \/ Unsatisfied(s, t) # {}))
          => UNCHANGED <<cursor, local_state, state, history>>]_vars

\* a transition out of a stage that holds data has just been rejected for
\* missing prerequisites
RejectedWithData ==
    /\ response.type = "state_input_required"
    /\ local_state[cursor] # EmptyState
    /\ \E s \in SessionIds : Active(s) /\ history[s] # <<>>

\* C4: a transition attempt to a legal destination whose prerequisites are
\* not all satisfied returns StateInputRequiredResult naming the target and
\* exactly the unsatisfied prerequisite fields, and sets the pending
\* transition to the target; from browse with empty global data, policy
\* [symbol, quantity] and local data holding only symbol, the fields named
\* are [quantity].
MissingPrerequisitesReported ==
    [][\A s \in SessionIds, t \in StageNames :
          (/\ execute_stage_transition(s, t)
           /\ LegalEdge(t)
           /\ Unsatisfied(s, t) # {})
          => /\ response'.type = "state_input_required"
             /\ response'.target_stage = t
             /\ Range(response'.required_fields) = Unsatisfied(s, t)
             /\ pending_transition'[s] = t
             /\ (/\ cursor = "browse"
                 /\ t = "transact"
                 /\ state[s] = EmptyState
                 /\ get_propagation_config(workflow, "browse", t)
                        = ConfigList(<<"symbol", "quantity">>)
                 /\ DOMAIN local_state["browse"] = {"symbol"})
                => response'.required_fields = <<"quantity">>]_vars

\* browse holds symbol but not quantity, and the attempt to reach transact
\* has been answered with the one missing field
QuantityRequested ==
    /\ response.type = "state_input_required"
    /\ response.target_stage = "transact"
    /\ response.required_fields = <<"quantity">>
    /\ cursor = "browse"
    /\ DOMAIN local_state["browse"] = {"symbol"}
    /\ \E s \in SessionIds : Active(s) /\ pending_transition[s] = "transact"

\* C5: a transition attempt to a legal destination whose prerequisites are
\* all satisfied moves the cursor there, clears the pending transition,
\* appends exactly one history entry recording source and destination, and
\* returns TransitionResult from the stage that was current to the target.
SatisfiedTransitionCommits ==
    [][\A s \in SessionIds, t \in StageNames :
          (/\ execute_stage_transition(s, t)
           /\ LegalEdge(t)
           /\ Unsatisfied(s, t) = {})
          => /\ cursor' = t
             /\ pending_transition'[s] = None
             /\ history'[s] = Append(history[s],
                    [action |-> "stage_transition", from |-> cursor, to |-> t])
             /\ response' = [type |-> "transition_result",
                             from_stage |-> cursor, to_stage |-> t]]_vars

\* transact, the stage with prerequisites, has just been entered from browse
TransactEntered ==
    /\ response.type = "transition_result"
    /\ response.from_stage = "browse"
    /\ response.to_stage = "transact"
    /\ cursor = "transact"
    /\ \E s \in SessionIds :
          /\ Active(s)
          /\ history[s] # <<>>
          /\ Last(history[s]) = [action |-> "stage_transition",
                                 from |-> "browse", to |-> "transact"]

\* C6: a transition attempt whose target is not in the current stage's
\* outgoing list returns ErrorResult carrying exactly that list.
IllegalEdgeListsAllowed ==
    [][\A s \in SessionIds, t \in StageInputs :
          (/\ execute_stage_transition(s, t)
           /\ t \notin Range(workflow.transitions[cursor]))
          => /\ response'.type = "error_result"
             /\ response'.has_allowed
             /\ response'.allowed = workflow.transitions[cursor]]_vars

\* an attempt from transact to a stage it does not lead to was answered
\* with transact's outgoing list
IllegalEdgeFromTransact ==
    /\ response.type = "error_result"
    /\ response.has_allowed
    /\ response.message.from = "transact"
    /\ response.message.to \in {"transact", "nonexistent_stage"}
    /\ response.allowed = <<"portfolio", "browse">>

\* C7: propagation correctness. After a committed transition the
\* destination's local data is the edge policy applied to the source's
\* local data at commit time: the source data for "all", empty for "none",
\* the listed fields present in the source for a field list; nothing of the
\* destination's previous data survives.
PropagationCorrect ==
    [][\A s \in SessionIds, t \in StageNames :
          (/\ execute_stage_transition(s, t)
           /\ LegalEdge(t)
           /\ Unsatisfied(s, t) = {})
          => LET config == get_propagation_config(workflow, cursor, t)
                 source == local_state[cursor]
                 target == local_state'[t]
             IN /\ config.kind = "all" => target = source
                /\ config.kind = "none" => target = EmptyState
                /\ config.kind = "list" =>
                      /\ DOMAIN target = Range(config.fields) \cap DOMAIN source
                      /\ \A k \in DOMAIN target : target[k] = source[k]]_vars

\* portfolio has been entered from transact under the policy [quantity]:
\* it holds the quantity and not the symbol transact holds
ListedFieldPropagated ==
    /\ response.type = "transition_result"
    /\ response.from_stage = "transact"
    /\ response.to_stage = "portfolio"
    /\ Has(local_state["transact"], "symbol")
    /\ DOMAIN local_state["portfolio"] = {"quantity"}

\* C8: history accounting. The history of a session grows by exactly one
\* entry with each operation call that succeeds and each transition that
\* commits, and not at all with a rejected transition, an operation call
\* that ends in an error, a handshake, a data supply or an unknown action.
HistoryAccounting ==
    [][\A s \in SessionIds :
          LET grown == Len(history'[s]) = Len(history[s]) + 1
              same == history'[s] = history[s]
          IN /\ \A t \in ToolInputs, a \in ArgInputs :
                   execute_method_call(s, t, a) =>
                       IF /\ t \in Range(workflow.tools[cursor])
                          /\ DOMAIN a \subseteq tool_params(t)
                       THEN grown ELSE same
             /\ \A t \in StageInputs :
                   execute_stage_transition(s, t) =>
                       IF LegalEdge(t) /\ Unsatisfied(s, t) = {}
                       THEN grown ELSE same
             /\ handshake(s) => same
             /\ (\E d \in DataInputs : state_input(s, d)) => same
             /\ unknown_action(s) => same]_vars

\* a session has recorded an operation call and a transition, and its
\* latest action ended in an error
HistoryOfTwoThenError ==
    /\ response.type = "error_result"
    /\ \E s \in SessionIds :
          /\ Active(s)
          /\ Len(history[s]) = 2
          /\ history[s][1].action = "method_call"
          /\ history[s][2].action = "stage_transition"

\* C10: data supply is last-write-wins per field. After a data supply each
\* field it names holds the supplied value, whatever the stage held for it
\* before, and every field it does not name keeps its value.
DataSupplyLastWriteWins ==
    [][\A s \in SessionIds, d \in DataInputs :
          state_input(s, d)
          => /\ DOMAIN local_state'[cursor] = DOMAIN local_state[cursor] \cup DOMAIN d
             /\ \A k \in DOMAIN d : local_state'[cursor][k] = d[k]
             /\ \A k \in DOMAIN local_state[cursor] \ DOMAIN d :
                    local_state'[cursor][k] = local_state[cursor][k]]_vars

\* add_to_cart stored AAPL in browse and the session has not left browse
\* since; the symbol is GOOGL now, which only a later data supply can have
\* written, and the quantity is still the one add_to_cart stored
SuppliedSymbolReplaced ==
    /\ response.type = "stage_message"
    /\ sessions = <<"alice">>
    /\ cursor = "browse"
    /\ Len(history["alice"]) = 1
    /\ history["alice"][1].action = "method_call"
    /\ history["alice"][1].task = "add_to_cart"
    /\ local_state["browse"] = [symbol |-> "GOOGL", quantity |-> "10"]

\* C9 as stated: a successful operation call runs the named operation of
\* the current stage against that stage's local data, leaves the cursor
\* unchanged, appends one history entry recording the stage, the operation,
\* the arguments and the result, and returns OperationResult.
OperationCallRecordsStage ==
    [][\A s \in SessionIds, t \in ToolInputs, a \in ArgInputs :
          (/\ execute_method_call(s, t, a)
           /\ t \in Range(workflow.tools[cursor])
           /\ DOMAIN a \subseteq tool_params(t))
          => /\ local_state'[cursor] = tool_execute(t, local_state[cursor], a).state
             /\ cursor' = cursor
             /\ Len(history'[s]) = Len(history[s]) + 1
             /\ SubSeq(history'[s], 1, Len(history[s])) = history[s]
             /\ LET entry == Last(history'[s])
                IN /\ "stage" \in DOMAIN entry
                   /\ entry.stage = cursor
                   /\ entry.task = t
                   /\ entry.args = a
                   /\ entry.result = tool_execute(t, local_state[cursor], a).result
             /\ response'.type = "tool_result"]_vars

\* C9, amended: a successful operation call runs the named operation of the
\* current stage against that stage's local data (what add_to_cart writes is
\* in that stage's local data afterwards), leaves the cursor unchanged,
\* appends one history entry recording the operation, the arguments and the
\* result -- and nothing else: the entry does not name the stage -- and
\* returns the operation's name and result.
OperationCallRecorded ==
    [][\A s \in SessionIds, t \in ToolInputs, a \in ArgInputs :
          (/\ execute_method_call(s, t, a)
           /\ t \in Range(workflow.tools[cursor])
           /\ DOMAIN a \subseteq tool_params(t))
          => /\ local_state'[cursor] = tool_execute(t, local_state[cursor], a).state
             /\ t = "add_to_cart" =>
                   /\ local_state'[cursor]["symbol"] = a["symbol"]
                   /\ local_state'[cursor]["quantity"] = a["quantity"]
             /\ \A other \in StageNames \ {cursor} :
                   local_state'[other] = local_state[other]
             /\ cursor' = cursor
             /\ Len(history'[s]) = Len(history[s]) + 1
             /\ SubSeq(history'[s], 1, Len(history[s])) = history[s]
             /\ LET entry == Last(history'[s])
                IN /\ DOMAIN entry = {"action", "task", "args", "result"}
                   /\ entry.action = "method_call"
                   /\ entry.task = t
                   /\ entry.args = a
                   /\ entry.result = tool_execute(t, local_state[cursor], a).result
             /\ response' = [type |-> "tool_result", tool_name |-> t,
                             result |-> tool_execute(t, local_state[cursor], a).result]]_vars

\* add_to_cart has just run in browse, over data the stage held before:
\* its two writes are in browse's local data and its call is the last
\* history entry
AddToCartRecorded ==
    /\ response.type = "tool_result"
    /\ response.tool_name = "add_to_cart"
    /\ cursor = "browse"
    /\ local_state["browse"] = [symbol |-> "AAPL", quantity |-> "10"]
    /\ \E s \in SessionIds :
          /\ Active(s)
          /\ Len(history[s]) = 2
          /\ Last(history[s]).task = "add_to_cart"
          /\ Last(history[s]).args = [symbol |-> "AAPL", quantity |-> "10"]

\* C3: missing prerequisites are recoverable. Whenever a transition attempt
\* to a stage has just returned StateInputRequiredResult naming missing
\* fields, a data supply providing every one of those fields, followed at
\* once by the same transition attempt, commits the transition.
MissingPrerequisitesRecoverable ==
    \A s \in SessionIds :
        (/\ Active(s)
         /\ response.type = "state_input_required"
         /\ pending_transition[s] = response.target_stage)
        => \A d \in DataInputs :
              Range(response.required_fields) \subseteq DOMAIN d
              => validate_transition(
                     workflow, cursor, response.target_stage, state[s],
                     [local_state EXCEPT ![cursor] = populate_state(@, d)]).valid

\* C11: a data supply changes only the current stage's local data. The
\* cursor, the pending transition, the history, the global data and the
\* local data of every other stage are as before, and no transition is
\* committed -- also when the data now held satisfies every prerequisite of
\* the pending transition.
DataSupplyFrame ==
    [][\A s \in SessionIds, d \in DataInputs :
          state_input(s, d)
          => /\ cursor' = cursor
             /\ pending_transition' = pending_transition
             /\ history' = history
             /\ state' = state
             /\ \A other \in StageNames \ {cursor} :
                    local_state'[other] = local_state[other]
             /\ response'.type = "stage_message"
             /\ response'.stage = cursor]_vars

\* the transition to transact was refused while browse held nothing; a data
\* supply (the history is empty, so no operation wrote the data) has since
\* stored both prerequisite fields, and the session is still in browse with
\* the transition pending
PendingSatisfiedNotCommitted ==
    /\ response.type = "stage_message"
    /\ sessions = <<"alice">>
    /\ cursor = "browse"
    /\ pending_transition["alice"] = "transact"
    /\ history["alice"] = <<>>
    /\ DOMAIN local_state["browse"] = {"symbol", "quantity"}
    /\ Unsatisfied("alice", "transact") = {}

\* C12: for every stage graph and registration order, initialize() leaves
\* the cursor at the stage with zero incoming edges when exactly one such
\* stage exists, and otherwise (no such stage, or more than one) at the
\* first registered stage.
InitializeAtUniqueRootOrFirst ==
    [][(initialize /\ workflow.stages # <<>>)
       => LET registered == Range(workflow.stages)
              roots == {x \in registered :
                          \A y \in registered :
                              x \notin Range(workflow.transitions[y])}
          IN cursor' = IF Cardinality(roots) = 1
                       THEN CHOOSE x \in roots : TRUE
                       ELSE workflow.stages[1]]_vars

\* C13: immediately after a session is created, every stage's local data is
\* empty, the session's global data is empty, its history is empty and it
\* has no pending transition, whatever earlier sessions did with the same
\* workflow.
FreshSessionIsEmpty ==
    [][\A s \in SessionIds :
          (create_session(s) /\ ~Active(s))
          => /\ \A st \in StageNames : local_state'[st] = EmptyState
             /\ state'[s] = EmptyState
             /\ history'[s] = <<>>
             /\ pending_transition'[s] = None
             /\ s \in Range(sessions')]_vars

\* alice's add_to_cart wrote into browse, and bob's session was created
\* after it: the stages hold nothing although alice's history records the
\* call
CreatedAfterStageDataWritten ==
    /\ sessions = <<"alice", "bob">>
    /\ response.type = "stage_message"
    /\ Len(history["alice"]) = 1
    /\ history["alice"][1].task = "add_to_cart"
    /\ history["bob"] = <<>>
    /\ \A st \in StageNames : local_state[st] = EmptyState

\* C14: when an operation raises during execution, the action returns
\* ErrorResult instead of propagating the failure, and the cursor, the
\* history and the pending transition are as they were before the call.
\* An operation raises when it is called with a keyword it does not take.
RaisingOperationContained ==
    [][\A s \in SessionIds, t \in ToolInputs, a \in ArgInputs :
          (/\ Active(s)
           /\ t \in Range(workflow.tools[cursor])
           /\ ~(DOMAIN a \subseteq tool_params(t))
           /\ execute_method_call(s, t, a))
          => /\ response'.type = "error_result"
             /\ response'.message.kind = "tool_error"
             /\ cursor' = cursor
             /\ history' = history
             /\ pending_transition' = pending_transition]_vars

\* an operation has just raised in a session that has a history and a
\* pending transition
RaisedWithHistoryAndPending ==
    /\ response.type = "error_result"
    /\ response.message.kind = "tool_error"
    /\ \E s \in SessionIds :
          /\ Active(s)
          /\ history[s] # <<>>
          /\ pending_transition[s] # None

\* C15: an operation call naming an operation that is not registered in the
\* current stage (also one registered only in another stage) returns
\* ErrorResult that names the unknown operation and lists the current
\* stage's available operation names, and changes no session state.
UnknownOperationListsAvailable ==
    [][\A s \in SessionIds, t \in ToolInputs, a \in ArgInputs :
          (/\ execute_method_call(s, t, a)
           /\ t \notin Range(workflow.tools[cursor]))
          => /\ response'.type = "error_result"
             /\ response'.message.tool = t
             /\ response'.has_allowed
             /\ response'.allowed = workflow.tools[cursor]
             /\ UNCHANGED <<cursor, local_state, state, history,
                            pending_transition>>]_vars

HandshakeChangesNothing ==
    [][\A s \in SessionIds :
          handshake(s)
          => /\ UNCHANGED <<cursor, local_state, state, pending_transition,
                            history, sessions>>
             /\ response' = [type |-> "stage_message", stage |-> cursor,
                             state |-> local_state[cursor]]]_vars

\* the stage has been rendered in the middle of a session: in transact,
\* entered with the data add_to_cart stored
StageRenderedMidSession ==
    /\ response.type = "stage_message"
    /\ response.stage = "transact"
    /\ cursor = "transact"
    /\ response.state = [symbol |-> "AAPL", quantity |-> "10"]
    /\ local_state["transact"] = response.state
    /\ \E s \in SessionIds :
          /\ Active(s)
          /\ Len(history[s]) = 2
          /\ Last(history[s]).to = "transact"

\* C18: the continuation context of every response describes the state
\* after the action: its current stage is the cursor after the action, its
\* state is that stage's local data after the action, and the operations and
\* transitions it advertises are exactly the operations registered in that
\* stage and exactly its outgoing transitions. Stated for the responses to
\* a handshake, an operation call, a transition attempt, a data supply and
\* an unknown action.
ContextDescribesPostActionState ==
    [][\A s \in SessionIds :
          (\/ handshake(s)
           \/ \E t \in ToolInputs, a \in ArgInputs : execute_method_call(s, t, a)
           \/ \E t \in StageInputs : execute_stage_transition(s, t)
           \/ \E d \in DataInputs : state_input(s, d)
           \/ unknown_action(s))
          => LET text == rendered(response', workflow, cursor', local_state')
             IN /\ text.has_context
                /\ text.stage = cursor'
                /\ text.state = local_state'[cursor']
                /\ text.tools = workflow.tools[cursor']
                /\ text.transitions = workflow.transitions[cursor']]_vars

HistoryAppendOnly ==
    [][\A s \in SessionIds :
          /\ Len(history'[s]) \in {Len(history[s]), Len(history[s]) + 1}
          /\ SubSeq(history'[s], 1, Len(history[s])) = history[s]
          /\ (\E id \in SessionIds \cup {None}, m \in PostedMessages :
                    do_POST_begin(id, m))
                => history' = history
          /\ history'[s] # history[s]
                => \E i \in InProgress(s) :
                      LET message == serving[i].message
                          entry == Last(history'[s])
                      IN /\ do_POST_complete(i)
                         /\ entry.action = message.action
                         /\ message.action = "method_call"
                               => /\ entry.task = message.tool
                                  /\ entry.args = message.args
                         /\ message.action = "stage_transition"
                               => /\ entry.from = cursor
                                  /\ entry.to = message.stage
                                  /\ cursor' = message.stage]_vars

\* a session's log holds an operation call followed by a transition
OperationThenTransitionLogged ==
    /\ serving = <<>>
    /\ \E s \in SessionIds :
          /\ Active(s)
          /\ Len(history[s]) = 2
          /\ history[s][1].action = "method_call"
          /\ history[s][2] = [action |-> "stage_transition",
                              from |-> "browse", to |-> "transact"]

----------------------------------------------------------------------------
\* C21: once a session has been created the cursor is one stage, and that
\* stage is registered in the workflow, whatever actions were dispatched; a
\* cursor that is set at all is a registered stage
CursorOnRegisteredStage ==
    /\ sessions # <<>> => cursor \in Range(workflow.stages)
    /\ cursor # None => cursor \in Range(workflow.stages)

\* a transition to a listed but unregistered stage was asked for and the
\* cursor is still on browse
UnregisteredTargetRefused ==
    /\ sessions # <<>>
    /\ response.type = "json_error"
    /\ response.error = "stage_not_found"
    /\ cursor = "browse"

----------------------------------------------------------------------------
\* C22 as stated: a committed transition leaves the local data of the stage
\* it leaves as it was, on every edge of the workflow
CommitLeavesSourceData ==
    [][\A t \in StageInputs :
          (/\ Active("alice")
           /\ local_state'[cursor] # local_state[cursor])
          => ~(/\ execute_stage_transition("alice", t)
               /\ response'.type = "transition_result")]_vars

\* C22 amended: a committed transition to another stage leaves the local
\* data of the stage it leaves as it was; a committed transition from a
\* stage to itself replaces the stage's data by what the edge propagates
CommitLeavesOtherSourceData ==
    [][\A t \in StageInputs :
          (/\ Active("alice")
           /\ \/ t # cursor /\ local_state'[cursor] # local_state[cursor]
              \/ t = cursor /\ local_state'[cursor] #
                                    propagated_state(local_state[cursor],
                                        get_propagation_config(workflow, cursor, t)))
          => ~(/\ execute_stage_transition("alice", t)
               /\ response'.type = "transition_result")]_vars

\* a transition to another stage was committed and the stage left holds data
LeftStageHoldsData ==
    /\ response.type = "transition_result"
    /\ response.from_stage # response.to_stage
    /\ local_state[response.from_stage] # EmptyState

----------------------------------------------------------------------------
\* C23: a transition attempt naming a stage that is not registered in the
\* workflow fails with the stage-not-found error of get_stage, which names
\* the stage and is not the cannot-transition error of an illegal edge, and
\* changes nothing of the session
UnregisteredTargetIsUnknownStage ==
    [][\A t \in StageInputs :
          (/\ Active("alice")
           /\ t \notin Range(workflow.stages)
           /\ execute_stage_transition("alice", t))
          => /\ response'.type = "json_error"
             /\ response'.error = "stage_not_found"
             /\ response'.stage = t
             /\ UNCHANGED <<cursor, local_state, sessions, state, history,
                            pending_transition>>]_vars

----------------------------------------------------------------------------
\* (a) the prerequisite fields of target absent from the global data of s
AbsentFromGlobal(s, target) ==
    {f \in Range(workflow.prerequisites[target]) : f \notin DOMAIN state[s]}

\* (b) the prerequisite fields of target that the policy of the edge from
\* the current stage, applied to that stage's local data, does not supply
NotPropagated(target) ==
    LET config == get_propagation_config(workflow, cursor, target)
        source == DOMAIN local_state[cursor]
    IN {f \in Range(workflow.prerequisites[target]) :
            CASE config.kind = "all" -> f \notin source
              [] config.kind = "list" ->
                    f \notin source \/ f \notin Range(config.fields)
              [] OTHER -> TRUE}

\* C24 as stated: on a legal edge the fields reported missing are the union
\* of (a) and (b), and the transition commits when that union is empty
MissingIsUnion ==
    [][\A t \in StageInputs :
          (/\ Active("alice")
           /\ t \in Range(workflow.stages)
           /\ t \in Range(workflow.transitions[cursor])
           /\ execute_stage_transition("alice", t))
          => LET missing == AbsentFromGlobal("alice", t) \cup NotPropagated(t)
             IN IF missing = {}
                THEN response'.type = "transition_result"
                ELSE /\ response'.type = "state_input_required"
                     /\ Range(response'.required_fields) = missing]_vars

\* C24 amended: on a legal edge the fields reported missing are the fields
\* that are in both (a) and (b), and the transition commits when there is
\* none
MissingIsIntersection ==
    [][\A t \in StageInputs :
          (/\ Active("alice")
           /\ t \in Range(workflow.stages)
           /\ t \in Range(workflow.transitions[cursor])
           /\ execute_stage_transition("alice", t))
          => LET missing == AbsentFromGlobal("alice", t) \cap NotPropagated(t)
             IN IF missing = {}
                THEN response'.type = "transition_result"
                ELSE /\ response'.type = "state_input_required"
                     /\ Range(response'.required_fields) = missing]_vars

\* transact was asked for from a stage that supplies one of its two
\* prerequisite fields, and the other one was reported missing
OneOfTwoReportedMissing ==
    /\ response.type = "state_input_required"
    /\ response.target_stage = "transact"
    /\ Len(response.required_fields) = 1
    /\ cursor # None
    /\ NotPropagated("transact") = Range(response.required_fields)

----------------------------------------------------------------------------
\* C25: a transition commits only when every prerequisite field of its
\* target is in the global data or among the fields the edge propagates
\* from the source stage, and right after it commits every prerequisite
\* field of the new current stage is in the global data or in that stage's
\* local data
PrerequisiteGate ==
    [][\A t \in StageInputs :
          (/\ Active("alice")
           /\ execute_stage_transition("alice", t)
           /\ response'.type = "transition_result")
          => /\ cursor' = t
             /\ \A f \in Range(workflow.prerequisites[t]) :
                    /\ f \in DOMAIN state["alice"] \/ f \notin NotPropagated(t)
                    /\ \/ f \in DOMAIN state'["alice"]
                       \/ f \in DOMAIN local_state'[cursor']]_vars

\* a transition was committed into a stage that has prerequisite fields, and
\* the stage's local data holds GOOGL as its symbol
GatedStageEntered ==
    /\ response.type = "transition_result"
    /\ cursor = response.to_stage
    /\ workflow.prerequisites[cursor] # <<>>
    /\ Get(local_state[cursor], "symbol") = "GOOGL"
    /\ Has(local_state[cursor], "quantity")

----------------------------------------------------------------------------
----------------------------------------------------------------------------
\* the row after call has run on row with no other call in between
run_alone(row, call) ==
    updated_row(row, [call EXCEPT !.fetched = fetched_column(row, call.op)])

\* C27: when both update calls on the session have returned, the stored row
\* is what running the two calls one after the other, in one order or the
\* other, leaves
StoreUpdatesSerializable ==
    (\A c \in StoreCallers : store.calls[c].pc = "done")
    => \E first \in StoreCallers :
          LET second == CHOOSE c \in StoreCallers : c # first
          IN store.row = run_alone(run_alone(CreatedRow, store.calls[first]),
                                   store.calls[second])

----------------------------------------------------------------------------
\* C28: initialize() puts the cursor on workflow.initial_stage, the default
\* entry add_stage recorded (the first stage added, or the stage added last
\* with the initial flag)
InitializeAtInitialStage ==
    [][(initialize /\ workflow.stages # <<>>)
       => cursor' = workflow.initial_stage]_vars

----------------------------------------------------------------------------
\* C29: whenever the workflow has a cursor, and so can be asked for the
\* transitions into it, the reverse-edge index lists stage S under
\* destination D exactly when D is in the outgoing list of S
ReverseIndexConsistent ==
    cursor # None
    => \A S \in Range(workflow.stages), D \in GraphStages :
          (D \in DOMAIN workflow.incoming /\ S \in Range(workflow.incoming[D]))
          <=> D \in Range(workflow.transitions[S])

----------------------------------------------------------------------------
\* C30: in a workflow that was built through add_stage and edge assignment
\* and has been initialized, every target in a stage's outgoing list is a
\* registered stage
EdgeClosure ==
    cursor # None
    => \A S \in Range(workflow.stages) :
          Range(workflow.transitions[S]) \subseteq Range(workflow.stages)

----------------------------------------------------------------------------
\* C32: when a transition commits, the fields the target holds afterwards
\* are exactly the fields validate_transition counted as propagated over
\* the edge, with the source's values; an edge with no configured policy
\* carries all of the source's data
ValidationAndCommitAgree ==
    [][\A t \in StageInputs :
          (/\ Active("alice")
           /\ execute_stage_transition("alice", t)
           /\ response'.type = "transition_result")
          => LET config == get_propagation_config(workflow, cursor, t)
                 counted == propagated_fields(local_state[cursor], config)
             IN /\ DOMAIN local_state'[t] = counted
                /\ \A f \in counted : local_state'[t][f] = local_state[cursor][f]
                /\ <<cursor, t>> \notin DOMAIN workflow.state_propagation
                      => local_state'[t] = local_state[cursor]]_vars

\* a transition was committed from a stage that holds data over an edge
\* whose policy is a StateTransfer member, and the target holds nothing
UnconvertedPolicyCarriedNothing ==
    /\ response.type = "transition_result"
    /\ <<response.from_stage, response.to_stage>> \in DOMAIN workflow.state_propagation
    /\ workflow.state_propagation[<<response.from_stage, response.to_stage>>]
            = ConfigStateTransferAll
    /\ local_state[response.from_stage] # EmptyState
    /\ local_state[response.to_stage] = EmptyState

----------------------------------------------------------------------------
\* C33: whenever the pending-transition slot of a session is set, it names a
\* stage in the outgoing list of the current stage
PendingNamesOutgoingStage ==
    \A s \in SessionIds :
        (Active(s) /\ pending_transition[s] # None)
        => pending_transition[s] \in Range(workflow.transitions[cursor])

----------------------------------------------------------------------------
\* C36: the stage_transition entries of a session's history, read in order,
\* start at the stage the session started in, each one leaves from the stage
\* the one before it entered, and the last one enters the current stage;
\* with no such entry the current stage is the starting stage
HistoryAndCursorAgree ==
    \A s \in SessionIds :
        Active(s)
        => LET moves == SelectSeq(history[s],
                                  LAMBDA e : e.action = "stage_transition")
           IN IF moves = <<>>
              THEN cursor = initial_cursor(workflow)
              ELSE /\ moves[1].from = initial_cursor(workflow)
                   /\ \A i \in 2..Len(moves) : moves[i].from = moves[i - 1].to
                   /\ moves[Len(moves)].to = cursor

----------------------------------------------------------------------------
\* C34: a transition attempt that is rejected for missing prerequisites sets
\* the pending-transition slot to its target and one that commits clears
\* it; every other dispatched action, the rejection of an illegal edge
\* included, leaves the slot as it was
PendingChangedOnlyByAttempts ==
    [][/\ (/\ Active("alice")
           /\ pending_transition'["alice"] # pending_transition["alice"])
          => /\ ~handshake("alice")
             /\ ~unknown_action("alice")
             /\ \A d \in DataInputs : ~state_input("alice", d)
             /\ \A e \in MalformedEnvelopes : ~malformed_envelope("alice", e)
             /\ \A t \in ToolInputs, a \in ArgInputs :
                    ~execute_method_call("alice", t, a)
       /\ \A t \in StageInputs :
            (Active("alice") /\ execute_stage_transition("alice", t))
            => pending_transition'["alice"] =
                  CASE response'.type = "state_input_required" -> t
                    [] response'.type = "transition_result" -> None
                    [] OTHER -> pending_transition["alice"]]_vars

\* the slot was set by a rejected attempt, and an operation call, recorded
\* in the history, was answered since without emptying it
PendingOutlivesOperationCall ==
    /\ pending_transition["alice"] = "transact"
    /\ response.type = "tool_result"
    /\ history["alice"] # <<>>

----------------------------------------------------------------------------
\* C35: the global data of every session is empty, at creation and after
\* any sequence of dispatched actions
GlobalDataStaysEmpty ==
    \A s \in SessionIds : state[s] = EmptyState

\* data was supplied to the session and stored in the current stage, and
\* an operation wrote to the stage as well
StageDataWrittenTwice ==
    /\ Active("alice")
    /\ response.type = "stage_message"
    /\ response.state # EmptyState
    /\ history["alice"] # <<>>
    /\ local_state[cursor] # EmptyState

----------------------------------------------------------------------------
\* C31: the UPDATE of update_global_state leaves the stored global state as
\* it was just before, overridden by the supplied keys; the UPDATE of
\* update_stage_state does the same to the entry of its stage and leaves the
\* global state, the current-stage pointer and every other stage's entry
\* as they were
StoreMergeSemantics ==
    [][\A c \in StoreCallers :
          update_execute(c)
          => LET call == store.calls[c]
                 old == store.row
                 new == store'.row
             IN CASE call.op = "update_global_state" ->
                        /\ new.global_state =
                              merged(old.global_state, call.state_json)
                        /\ new.stage_states = old.stage_states
                        /\ new.current_stage = old.current_stage
                  [] call.op = "update_stage_state" ->
                        /\ DOMAIN new.stage_states =
                              (DOMAIN old.stage_states) \cup {call.stage_id}
                        /\ \A st \in DOMAIN new.stage_states :
                              new.stage_states[st] =
                                IF st = call.stage_id
                                THEN merged(stage_state_of(old.stage_states, st),
                                            call.state_json)
                                ELSE old.stage_states[st]
                        /\ new.global_state = old.global_state
                        /\ new.current_stage = old.current_stage
                  [] OTHER -> TRUE]_vars

----------------------------------------------------------------------------
\* the methods of the manager that change the row of a session
StoreUpdates == {"update_global_state", "update_stage_state", "update_current_stage"}

\* the methods that return the stored state of a session
StateReads == {"get_global_state", "get_stage_state"}

\* caller c begins a call in this step
call_begins(c) ==
    /\ store.calls[c].pc = "idle"
    /\ store.calls'[c].pc # "idle"

\* the call caller c begins in this step raises the error and changes neither
\* the row of the session nor its snapshots
call_raises(c, error) ==
    /\ store.calls'[c].pc = "raised"
    /\ store.calls'[c].fetched = error
    /\ store'.row = store.row
    /\ store'.state_history = store.state_history

\* C37 (as stated): every read or update for a session id that has no row
\* fails with a not-found error, and create_session for an id that has a row
\* fails with an already-exists error; in both cases the stored session and
\* the snapshot history are unchanged.
WrongIdAlwaysFails ==
    [][\A c \in StoreCallers :
          call_begins(c) =>
            /\ (/\ store.row = NoRow
                /\ store.calls'[c].op \in
                       StoreUpdates \cup StateReads \cup {"get_state_history"})
                  => call_raises(c, "not_found")
            /\ (store.row # NoRow /\ store.calls'[c].op = "create_session")
                  => call_raises(c, "already_exists")]_vars

\* C37 (amended): get_global_state, get_stage_state and every update for a
\* session id that has no row fail with a not-found error, and create_session
\* for an id that has a row fails with an already-exists error, the stored
\* session and the snapshot history unchanged in both cases; get_state_history
\* for an id that has no row does not fail: it returns the snapshots stored
\* under the id, none when the calls are not interleaved, and changes nothing.
WrongIdFailsExceptHistoryRead ==
    [][\A c \in StoreCallers :
          call_begins(c) =>
            /\ (/\ store.row = NoRow
                /\ store.calls'[c].op \in StoreUpdates \cup StateReads)
                  => call_raises(c, "not_found")
            /\ (store.row # NoRow /\ store.calls'[c].op = "create_session")
                  => call_raises(c, "already_exists")
            /\ (store.row = NoRow /\ store.calls'[c].op = "get_state_history")
                  => /\ store.calls'[c].pc = "done"
                     /\ store.calls'[c].fetched = <<>>
                     /\ store'.row = store.row
                     /\ store'.state_history = store.state_history]_vars

\* an update of a deleted session has raised not-found
UpdateOfMissingSessionRaised ==
    \E c \in StoreCallers :
        /\ store.calls[c].op \in StoreUpdates
        /\ store.calls[c].pc = "raised"
        /\ store.calls[c].fetched = "not_found"
        /\ store.row = NoRow
        /\ \E d \in StoreCallers \ {c} : store.calls[d] = NoCall

----------------------------------------------------------------------------
\* C38: with the calls on a session made one at a time, the current stage of
\* a stored session always has an entry in its stage-state map, and the
\* UPDATE of update_current_stage leaves the state of every stage that had
\* an entry, the one it moves to included, and the global state as they were
\* and gives a stage without an entry the empty state.
CurrentStageHasEntry ==
    /\ [](store.row # NoRow
            => store.row.current_stage \in DOMAIN store.row.stage_states)
    /\ [][\A c \in StoreCallers :
            (/\ store.calls[c].op = "update_current_stage"
             /\ update_execute(c))
            => /\ store'.row.current_stage = store.calls[c].stage_id
               /\ store'.row.global_state = store.row.global_state
               /\ DOMAIN store'.row.stage_states =
                     DOMAIN store.row.stage_states \cup {store.calls[c].stage_id}
               /\ \A k \in DOMAIN store'.row.stage_states :
                     store'.row.stage_states[k] =
                        stage_state_of(store.row.stage_states, k)]_vars

\* update_current_stage has moved the session to a stage whose state was
\* written before
MovedToStageWithState ==
    \E c \in StoreCallers :
        /\ store.calls[c].op = "update_current_stage"
        /\ store.calls[c].pc = "done"
        /\ store.row.current_stage = "transact"
        /\ "transact" \in DOMAIN store.row.stage_states
        /\ store.row.stage_states["transact"] # EmptyState

----------------------------------------------------------------------------
\* the methods of the manager that end in a call of _snapshot
SnapshotCalls == StoreUpdates \cup {"create_session"}

\* C39: with the calls on a session made one at a time, the UPDATE of each
\* update raises the version of the session by exactly one, each _snapshot
\* appends exactly one snapshot, the row as the call that takes the snapshot
\* left it, and nothing else appends to the history; so once a call has
\* returned the history holds one snapshot for the creation and one for each
\* update since, the last one equal to the stored row, and the versions of the
\* snapshots increase strictly in history order.
SnapshotLog ==
    /\ []((store.row # NoRow
            /\ \A c \in StoreCallers : store.calls[c].pc \in {"idle", "done", "raised"})
           => /\ Len(store.state_history) = store.row.version - CreatedRow.version + 1
              /\ store.state_history[Len(store.state_history)] = store.row)
    /\ [](\A i \in 1..(Len(store.state_history) - 1) :
              store.state_history[i].version < store.state_history[i + 1].version)
    /\ [][\A c \in StoreCallers :
            /\ (store.calls[c].op \in StoreUpdates /\ update_execute(c))
                  => /\ store'.row.version = store.row.version + 1
                     /\ store'.state_history = store.state_history
            /\ (store.calls[c].op \in SnapshotCalls /\ snapshot_insert(c))
                  => /\ store'.state_history =
                           Append(store.state_history, store.row)
                     /\ store'.row = store.row
                     /\ store'.calls[c].pc = "done"
            /\ (call_begins(c) /\ store.calls'[c].op # "delete_session")
                  => store'.state_history = store.state_history]_vars

\* the second update of a session has returned, three snapshots in the log
SecondUpdateSnapshotted ==
    \E c \in StoreCallers :
        /\ store.calls[c].op \in StoreUpdates
        /\ store.calls[c].pc = "done"
        /\ store.row.version = CreatedRow.version + 2
        /\ Len(store.state_history) = 3
        /\ store.state_history[3] = store.row

====
